---- MODULE Spec2Model ----
(***************************************************************************)
(* FinWiz: the retry wrapper around LLM calls (tools/llm_retry.py) and the *)
(* API tools handed to the agents (tools/*_tool.py).                       *)
(*                                                                         *)
(* Spec      : one RetryLLMWrapper configuration, whose blocking method    *)
(*             _generate and asynchronous method _agenerate are both       *)
(*             invoked once against the same scripted underlying LLM.      *)
(***************************************************************************)
EXTENDS Integers, Sequences, FiniteSets, TLC

(***************************************************************************)
(* Bounds of the model                                                     *)
(***************************************************************************)
\* the largest max_retries a wrapper is configured with
MaxRetries == 3

(***************************************************************************)
(* Values                                                                  *)
(***************************************************************************)
\* Python's None for a returned result / a raised exception
NoneResult == [isNone |-> TRUE, generations |-> <<>>]
NoException == [type |-> "None", msg |-> ""]

\* an LLMResult with the given generations (a list, per prompt, of the lists
\* of generations; a generation is represented by its text, a sequence of
\* characters)
LLMResult(gens) == [isNone |-> FALSE, generations |-> gens]

\* texts the underlying LLM produces
TextEmpty == <<>>
TextBlank == <<" ", "\n">>
TextOk == <<"o", "k">>
TextPadded == <<" ", "o", "k", " ">>

\* exceptions the underlying LLM call raises
LLMExceptions ==
    { [type |-> "TimeoutError", msg |-> "timed out"],
      [type |-> "RateLimitError", msg |-> "rate limited"] }

\* results of the underlying call that carry no text
EmptyResults ==
    { NoneResult,
      LLMResult(<<>>),
      LLMResult(<< <<>> >>),
      LLMResult(<< <<TextEmpty>> >>),
      LLMResult(<< <<TextBlank>> >>),
      LLMResult(<< <<TextOk>>, <<TextBlank>> >>),
      LLMResult(<< <<TextOk>>, <<>> >>) }

\* results of the underlying call with text for every prompt
ValidResults ==
    { LLMResult(<< <<TextOk>> >>),
      LLMResult(<< <<TextPadded>>, <<TextOk>> >>),
      LLMResult(<< <<TextOk, TextEmpty>> >>) }

Raises(e) == [kind |-> "raise", exc |-> e, value |-> NoneResult]
Returns(r) == [kind |-> "return", exc |-> NoException, value |-> r]

FailingOutcomes ==
    { Raises(e) : e \in LLMExceptions } \cup { Returns(r) : r \in EmptyResults }
ValidOutcomes == { Returns(r) : r \in ValidResults }
Outcomes == FailingOutcomes \cup ValidOutcomes

\* configurations RetryLLMWrapper.__init__ is given (it validates nothing);
\* a factor is the rational <<numerator, denominator>>
MaxRetriesValues == 0 .. MaxRetries
MinSecondsValues == {-1, 1, 2}
MaxSecondsValues == {-1, 3}
FactorValues == { <<1, 2>>, <<1, 1>>, <<2, 1>>, <<3, 1>> }

Variants == {"_generate", "_agenerate"}

(***************************************************************************)
(* State                                                                   *)
(***************************************************************************)
VARIABLES
    max_retries,     \* self.max_retries
    min_seconds,     \* self.min_seconds
    max_seconds,     \* self.max_seconds
    factor,          \* self.factor
    verbose,         \* self.verbose
    llm_calls,       \* number of outcomes the underlying LLM has been scripted with
    llm_outcome,     \* outcome of underlying call number llm_calls
    llm_failures,    \* how many of the scripted outcomes were failing ones
    state,           \* per variant: Attempting, Retrying, Succeeded, Exhausted
    calls,           \* per variant: underlying calls made
    attempt_number,  \* _generate: tenacity's retry_state.attempt_number
    last_exception,  \* _generate: last_exception
    attempt,         \* _agenerate: attempt
    wait_time,       \* per variant: the delay about to be slept
    sleeps,          \* per variant: the delays slept, in order
    log,             \* per variant: the logger calls, in order
    result,          \* per variant: the value returned
    raised,          \* per variant: the exception raised to the caller
    api_key,         \* the environment variable ALPHA_VANTAGE_API_KEY
    rag_store,       \* the texts held by the RagTool behind SaveToRagTool
    tool,            \* the tool whose _run was called last
    tool_env,        \* what that call met: the HTTP exchange or the storage
    tool_returned,   \* what that call returned
    tool_raised,     \* the exception that call raised to the agent
    runs,            \* kickoff() calls made so far
    kickoff_status,  \* of the last kickoff(): idle, running, completed, raised
    kickoff_raised,  \* the exception the last kickoff() raised
    method,          \* per flow method of this run: pending, crew, done, failed
    started,         \* the flow methods of this run, in the order they started
    flow_state,      \* self.state: stock_result, etf_result, crypto_result
    inputs,          \* the results self.inputs holds (report adds them)
    fs,              \* the report directory: per file name, absent or its content
    found,           \* per flow method: what it met when it looked for its file
    crew_kickoffs,   \* per flow method: kickoffs of its crew in this run
    crew_raw,        \* per flow method: result.raw of its crew in this run
    flow_log,        \* the logger calls of this run, as <<level, method, what>>
    persisted,       \* what the crews of the run before this one wrote, if all did
    vectordb_config, \* collection_name in DEFAULT_RAG_CONFIG["vectordb"]["config"]
    rag_tools,       \* the [rag_tool, save_to_rag_tool] pairs handed out, in order
    collections,     \* per collection of the vector store: whose texts it holds
    retrieved,       \* the last retrieval: through whose tool, whose texts
    cache_args,      \* run_crew_with_caching: output_filename, state_key, kind of state
    cache_file,      \* the file output_filename: absent or its content
    cache_state,     \* state[state_key] or the attribute state_key of state
    cache_crew,      \* kickoffs of crew_class().crew() by the call
    cache_status,    \* not called, returned, raised
    cache_raised,    \* the exception the call raised
    _PATCHED,        \* crewai_retry_patch._PATCHED
    has_get_model,   \* hasattr(OpenAIAdapter, 'get_model')
    agent_get_llm,   \* CrewAIAgent._get_llm: the original or a patched_get_llm
    adapter_get_model, \* OpenAIAdapter.get_model: the original or a patched_get_model
    patch_calls,     \* calls of patch_crewai_llm_initialization so far
    patch_args,      \* max_retries and verbose of the last of these calls
    patch_log,       \* the logger calls of the last of these calls
    patch_raised,    \* the exception the last of these calls raised
    obtained,        \* the LLM last obtained from _get_llm or get_model
    parser_args,     \* JSONParserTool._run: json_content, json_file_path, extraction_type
    parser_file,     \* what json_file_path names on disk
    parser_returned, \* what the call returned
    parser_raised    \* the exception the call raised

config == <<max_retries, min_seconds, max_seconds, factor, verbose>>
llm == <<llm_calls, llm_outcome, llm_failures>>
syncLocals == <<attempt_number, last_exception>>
retryVars == <<config, llm, state, calls, syncLocals, attempt, wait_time, sleeps,
               log, result, raised>>
toolVars == <<api_key, rag_store, tool, tool_env, tool_returned, tool_raised>>
flowVars == <<runs, kickoff_status, kickoff_raised, method, started, flow_state,
              inputs, fs, found, crew_kickoffs, crew_raw, flow_log,
              persisted>>
ragVars == <<vectordb_config, rag_tools, collections, retrieved>>
cachingVars == <<cache_args, cache_file, cache_state, cache_crew, cache_status,
                 cache_raised>>
patchVars == <<_PATCHED, has_get_model, agent_get_llm, adapter_get_model,
               patch_calls, patch_args, patch_log, patch_raised, obtained>>
parserVars == <<parser_args, parser_file, parser_returned, parser_raised>>
vars == <<retryVars, toolVars, flowVars, ragVars, cachingVars, patchVars,
          parserVars>>

\* what a step of the retry wrapper / of a tool leaves alone
nonRetryVars == <<toolVars, flowVars, ragVars, cachingVars, patchVars,
    parserVars>>
nonToolVars == <<retryVars, flowVars, ragVars, cachingVars, patchVars,
    parserVars>>
nonFlowVars == <<retryVars, toolVars, ragVars, cachingVars, patchVars,
    parserVars>>
nonRagVars == <<retryVars, toolVars, flowVars, cachingVars, patchVars,
    parserVars>>
nonCachingVars == <<retryVars, toolVars, flowVars, ragVars, patchVars,
    parserVars>>
nonPatchVars == <<retryVars, toolVars, flowVars, ragVars, cachingVars,
    parserVars>>
nonParserVars == <<retryVars, toolVars, flowVars, ragVars, cachingVars,
    patchVars>>

(***************************************************************************)
(* The CrewAI patch: the two methods it replaces, the LLMs they hand out   *)
(***************************************************************************)
\* calls of patch_crewai_llm_initialization explored
MaxPatchCalls == 3

\* max_retries given to the patch
PatchRetries == {1, 5}

\* CrewAI's own method; a patched_get_llm / patched_get_model closure with
\* the max_retries and verbose of the call that made it
Original == [patched |-> FALSE, max_retries |-> 0, verbose |-> FALSE]
Patched(m, v) == [patched |-> TRUE, max_retries |-> m, verbose |-> v]

\* an LLM object: its innermost class, the RetryLLMWrapper layers around it,
\* max_retries of the outermost layer (0 without a layer)
LLMObject(kind, layers, m) == [kind |-> kind, layers |-> layers, max_retries |-> m]

\* what the original method returns: a langchain BaseLLM or BaseChatModel, an
\* object of another class (CrewAI's own LLM class, a model name), or a
\* RetryLLMWrapper somebody has put around a BaseLLM already
OriginalLLMs ==
    { LLMObject("BaseLLM", 0, 0), LLMObject("BaseChatModel", 0, 0),
      LLMObject("other", 0, 0), LLMObject("BaseLLM", 1, 3) }

\* nothing obtained yet; otherwise the object and the method that returned it
NoLLM == [llm |-> LLMObject("none", 0, 0), by |-> Original]

\* the module is imported: nothing is patched
PatchIdle ==
    /\ _PATCHED = FALSE
    /\ has_get_model = TRUE
    /\ agent_get_llm = Original
    /\ adapter_get_model = Original
    /\ patch_calls = 0
    /\ patch_args = [max_retries |-> 0, verbose |-> FALSE]
    /\ patch_log = <<>>
    /\ patch_raised = NoException
    /\ obtained = NoLLM

(***************************************************************************)
(* JSONParserTool: the documents, the arguments, the file                  *)
(***************************************************************************)
\* the keys of a report _run looks for at the top of the document
ReportKeys == {"tickers_analyzed", "recommendations"}

\* the Python type of data[key] in a dict, "missing" without the key
ValueKinds == {"list", "str", "number", "null"}

\* a document as json.loads returns it: the Python type of its top value
\* (dict for an object); has, the keys k for which "k in data" is True (a key
\* of the dict, an element of the list, a substring of the str); the types
\* of data["tickers_analyzed"] and data["recommendations"] in a dict;
\* whether every ticker it names is hashable (a list or an object given as
\* a ticker is not)
Doc(top, has, ta, recs, hashable) ==
    [top |-> top, has |-> has, tickers_analyzed |-> ta, recommendations |-> recs,
     hashable |-> hashable]

NoDoc == Doc("none", {}, "missing", "missing", TRUE)

\* the objects, with the keys they have
DictDocs ==
    { d \in [top : {"dict"}, has : SUBSET ReportKeys,
             tickers_analyzed : ValueKinds \cup {"missing"},
             recommendations : ValueKinds \cup {"missing"},
             hashable : BOOLEAN] :
        /\ ("tickers_analyzed" \in d.has) = (d.tickers_analyzed # "missing")
        /\ ("recommendations" \in d.has) = (d.recommendations # "missing")
        /\ ~d.hashable => "list" \in {d.tickers_analyzed, d.recommendations} }

\* every document: objects, arrays, strings, numbers, null
Docs ==
    DictDocs
    \cup { Doc(top, has, "missing", "missing", TRUE) :
             top \in {"list", "str"}, has \in SUBSET ReportKeys }
    \cup { Doc(top, {}, "missing", "missing", TRUE) : top \in {"number", "null"} }

\* a str argument or a file's text: "" is empty, "not json" does not parse,
\* "json" is the text of doc; None is the argument left out
NoneArg == [is_none |-> TRUE, text |-> "", doc |-> NoDoc]
Text(t, d) == [is_none |-> FALSE, text |-> t, doc |-> d]
JsonTexts ==
    {Text("", NoDoc), Text("not json", NoDoc)} \cup { Text("json", d) : d \in Docs }
JsonContents == {NoneArg} \cup JsonTexts

\* json_file_path: None, the empty string, a path
JsonFilePaths == {"None", "", "report/stock.json"}

\* extraction_type: the five the tool knows and one it does not
ExtractionTypes ==
    {"all", "tickers", "recommendations", "allocation", "summary", "other"}

\* what a path names: nothing, a directory, a file that may not be opened,
\* a file that is not text, a text file
FileOf(kind, text) == [kind |-> kind, text |-> text]
NoFile == FileOf("missing", Text("", NoDoc))
ParserFiles ==
    {NoFile, FileOf("directory", Text("", NoDoc)),
     FileOf("unreadable", Text("", NoDoc)), FileOf("undecodable", Text("", NoDoc))}
    \cup { FileOf("file", t) : t \in JsonTexts }

\* a value returned: its Python type and, for a dict, its keys; nothing
\* returned
ReturnValue(kind, keys) == [kind |-> kind, keys |-> keys]
NoReturn == ReturnValue("none", {})

\* _run has not been called
ParserFresh ==
    /\ parser_args = [json_content |-> NoneArg, json_file_path |-> "None",
                      extraction_type |-> "not called"]
    /\ parser_returned = NoReturn
    /\ parser_raised = NoException

\* _run has not been called, there is no file
ParserIdle == parser_file = NoFile /\ ParserFresh

(***************************************************************************)
(* The RAG tools: the shared configuration, the collections                *)
(***************************************************************************)
\* [rag_tool, save_to_rag_tool] pairs kept
MaxTools == 2

\* collection_suffix: None, or the domain of a crew
NoSuffix == "None"
CollectionSuffixes == {NoSuffix, "etf", "crypto"}

\* the collection DEFAULT_RAG_CONFIG names as it is imported
DefaultCollection == "DEFAULT_RAG_CONFIG"

\* f"finwiz-{collection_suffix}"
CollectionName(suffix) == "finwiz-" \o suffix

CollectionNames ==
    {DefaultCollection} \cup { CollectionName(x) : x \in CollectionSuffixes \ {NoSuffix} }

\* nothing was retrieved
NoRetrieval == [through |-> NoSuffix, texts |-> {}]

\* the module is imported, no tool is built, the vector store is empty
RagIdle ==
    /\ vectordb_config = DefaultCollection
    /\ rag_tools = <<>>
    /\ collections = [c \in CollectionNames |-> {}]
    /\ retrieved = NoRetrieval

(***************************************************************************)
(* The flow: its methods, their files, the state they share                *)
(***************************************************************************)
\* kickoff() calls explored
MaxRuns == 2

\* the methods of CryptoFlow that the flow runs
Stages == {"check_stock", "check_etf", "check_crypto", "report"}
AnalysisStages == {"check_stock", "check_etf", "check_crypto"}

\* the methods a method waits for: @start() waits for none, @listen(m) for m,
\* @listen(and_(...)) for all of them
Listens_AllStart(s) == {}
Listens(s) ==
    CASE s = "check_stock" -> {}
      [] s = "check_etf" -> {"check_stock"}
      [] s = "check_crypto" -> {"check_etf"}
      [] s = "report" -> {"check_stock", "check_etf", "check_crypto"}

\* json_file of a method, inside report_dir
JsonFile_CopyPaste(s) ==
    CASE s = "check_stock" -> "stock_unicorn_investment_recommendations.json"
      [] s = "check_etf" -> "etf_unicorn_investment_recommendations.json"
      [] s = "check_crypto" -> "etf_unicorn_investment_recommendations.json"
      [] s = "report" -> "comprehensive_investment_report.json"
JsonFile(s) ==
    CASE s = "check_stock" -> "stock_unicorn_investment_recommendations.json"
      [] s = "check_etf" -> "etf_unicorn_investment_recommendations.json"
      [] s = "check_crypto" -> "crypto_unicorn_investment_recommendations.json"
      [] s = "report" -> "comprehensive_investment_report.json"

Files == { JsonFile(s) : s \in Stages }

\* the field of self.state an analysis method fills
StateKey(s) ==
    CASE s = "check_stock" -> "stock_result"
      [] s = "check_etf" -> "etf_result"
      [] s = "check_crypto" -> "crypto_result"

StateKeys == { StateKey(s) : s \in AnalysisStages }

\* os.path.exists(json_file) is False
Absent == "ENOENT"
\* result.raw of a crew
Raws == {"raw1", "raw2"}
\* what a file left by an earlier session holds
Cached == "cached"
\* a file opened for writing whose write failed
Truncated == ""
\* the crew has not returned
NoRaw == "None"
\* a key self.inputs does not hold
NoInput == "KeyError"
\* what a crew's kickoff raises
CrewExceptions == { [type |-> "CrewError", msg |-> "crew failed"] }
\* open(json_file, "w") and f.write(result.raw): both succeed, open fails,
\* or write fails after open has emptied the file
WriteOutcomes == {"written", "open fails", "write fails"}

\* CryptoState(): the result fields are empty strings
CryptoState == [k \in StateKeys |-> ""]

\* per kickoff(): a new CryptoFlow, nothing run
FlowFresh ==
    /\ kickoff_raised = NoException
    /\ method = [s \in Stages |-> "pending"]
    /\ started = <<>>
    /\ flow_state = CryptoState
    /\ inputs = [k \in StateKeys |-> NoInput]
    /\ found = [s \in Stages |-> "none"]
    /\ crew_kickoffs = [s \in Stages |-> 0]
    /\ crew_raw = [s \in Stages |-> NoRaw]
    /\ flow_log = {}

\* kickoff() has not been called, the report directory is empty
FlowIdle ==
    /\ runs = 0
    /\ kickoff_status = "idle"
    /\ fs = [f \in Files |-> Absent]
    /\ persisted = [s \in Stages |-> NoRaw]
    /\ FlowFresh

\* run_crew_with_caching has not been called
CachingIdle ==
    /\ cache_args = [output_filename |-> "none", state_key |-> "none", state |-> "none"]
    /\ cache_file = Absent
    /\ cache_state = ""
    /\ cache_crew = 0
    /\ cache_status = "not called"
    /\ cache_raised = NoException

(***************************************************************************)
(* What a tool's _run meets                                                *)
(***************************************************************************)
\* A JSON document, by what the tools look at: its top-level type, whether
\* it is falsy (null, 0, false, "", [], {}), whether it holds "Note" (a key of a
\* dict, an item of a list, a part of a string), and for a dict the values
\* under "error" and "result" (absent, null, list, empty_list, empty_dict,
\* dict).
Json(top, falsy, note, error, res) ==
    [top |-> top, falsy |-> falsy, note |-> note, error |-> error, result |-> res]

\* bodies the Kraken endpoint may answer with
KrakenBodies ==
    { Json("dict", FALSE, FALSE, e, r) :
        e \in {"absent", "null", "empty_list", "list"},
        r \in {"absent", "null", "list", "empty_dict", "dict"} }
    \cup { Json(t, TRUE, FALSE, "absent", "absent") : t \in {"null", "list"} }
    \cup { Json(t, FALSE, FALSE, "absent", "absent") : t \in {"str", "int"} }

\* bodies the Alpha Vantage endpoint may answer with
AlphaVantageBodies ==
    { Json("dict", TRUE, FALSE, "absent", "absent"),
      Json("dict", FALSE, TRUE, "absent", "absent"),
      Json("dict", FALSE, FALSE, "absent", "absent"),
      Json("list", TRUE, FALSE, "absent", "absent"),
      Json("list", FALSE, TRUE, "absent", "absent"),
      Json("list", FALSE, FALSE, "absent", "absent"),
      Json("str", TRUE, FALSE, "absent", "absent"),
      Json("str", FALSE, TRUE, "absent", "absent"),
      Json("str", FALSE, FALSE, "absent", "absent"),
      Json("int", TRUE, FALSE, "absent", "absent"),
      Json("int", FALSE, FALSE, "absent", "absent"),
      Json("bool", TRUE, FALSE, "absent", "absent"),
      Json("bool", FALSE, FALSE, "absent", "absent"),
      Json("null", TRUE, FALSE, "absent", "absent") }

NoBody == Json("none", TRUE, FALSE, "absent", "absent")

\* requests.get(url, timeout=10) raising exc
HttpFails(exc) == [get |-> exc, status |-> 0, json |-> "none", body |-> NoBody]
\* a response with an error status
HttpStatus(code) == [get |-> "ok", status |-> code, json |-> "none", body |-> NoBody]
\* a 200 response whose body is not JSON: response.json() raises exc, which
\* is requests' JSONDecodeError, or json's with an older requests
HttpNotJson(exc) == [get |-> "ok", status |-> 200, json |-> exc, body |-> NoBody]
\* a 200 response with a JSON body
HttpJson(b) == [get |-> "ok", status |-> 200, json |-> "ok", body |-> b]

HttpExchanges(bodies) ==
    { HttpFails(exc) : exc \in {"ConnectionError", "Timeout"} }
    \cup { HttpStatus(code) : code \in {404, 500} }
    \cup { HttpNotJson(exc) :
              exc \in {"requests.JSONDecodeError", "json.JSONDecodeError"} }
    \cup { HttpJson(b) : b \in bodies }

\* the classes "except requests.exceptions.RequestException" catches
RequestExceptions ==
    {"ConnectionError", "Timeout", "HTTPError", "requests.JSONDecodeError"}

\* rag_tool.add(source=text, data_type="text") stores the text or raises
StorageOutcomes == {"stored", "ConnectionError", "ValueError"}
StorageEnv(o) == [get |-> o, status |-> 0, json |-> "none", body |-> NoBody]

NoEnv == [get |-> "none", status |-> 0, json |-> "none", body |-> NoBody]

ApiKeys == {"unset", "", "KEY"}
Texts == {"note 1", "note 2"}

(***************************************************************************)
(* Arithmetic: delays are rationals <<p, q>>, q > 0, in lowest terms       *)
(***************************************************************************)
RECURSIVE Pow(_, _)
Pow(b, e) == IF e = 0 THEN 1 ELSE b * Pow(b, e - 1)

Abs(x) == IF x < 0 THEN -x ELSE x

RECURSIVE GCD(_, _)
GCD(a, b) == IF b = 0 THEN a ELSE GCD(b, a % b)

Rat(p, q) ==
    LET g == GCD(Abs(p), q) IN <<p \div g, q \div g>>

RatLeq(a, b) == a[1] * b[2] <= b[1] * a[2]
RatLess(a, b) == a[1] * b[2] < b[1] * a[2]

\* Python's min(a, b) and max(a, b): the first argument wins a tie
PyMin(a, b) == IF RatLess(b, a) THEN b ELSE a
PyMax(a, b) == IF RatLess(a, b) THEN b ELSE a

(***************************************************************************)
(* Helpers of the retry wrapper                                            *)
(***************************************************************************)
Whitespace == {" ", "\t", "\n"}

RECURSIVE LStrip(_)
LStrip(text) ==
    IF text = <<>> THEN text
    ELSE IF Head(text) \in Whitespace THEN LStrip(Tail(text))
    ELSE text

RECURSIVE RStrip(_)
RStrip(text) ==
    IF text = <<>> THEN text
    ELSE IF text[Len(text)] \in Whitespace THEN RStrip(SubSeq(text, 1, Len(text) - 1))
    ELSE text

\* str.strip() left out: the text as it is
Strip_Missing(text) == text

\* str.strip()
Strip(text) == RStrip(LStrip(text))

ValueError(msg) == [type |-> "ValueError", msg |-> msg]
RuntimeError(msg) == [type |-> "RuntimeError", msg |-> msg]

\* "not result or not result.generations or not result.generations[0]"
IsEmptyResponse(r) ==
    \/ r.isNone
    \/ r.generations = <<>>
    \/ r.generations[1] = <<>>

\* the content check applied to the first prompt's list only
HasEmptyContent_FirstOnly(r) ==
    LET gen_list == r.generations[1] IN
        \/ gen_list = <<>>
        \/ gen_list[1] = <<>>
        \/ Strip(gen_list[1]) = <<>>

\* "not gen_list or not gen_list[0].text or gen_list[0].text.strip() == ''"
\* for some gen_list of result.generations
HasEmptyContent(r) ==
    \E i \in 1 .. Len(r.generations) :
        LET gen_list == r.generations[i] IN
            \/ gen_list = <<>>
            \/ gen_list[1] = <<>>
            \/ Strip(gen_list[1]) = <<>>

\* the exception _generate's validation raises for result r (NoException: none)
Generate_Validate(r) ==
    IF IsEmptyResponse(r) THEN ValueError("Empty response from LLM call")
    ELSE IF HasEmptyContent(r) THEN ValueError("Empty content in LLM response")
    ELSE NoException

\* the exception _agenerate's validation raises for result r
Agenerate_Validate(r) ==
    IF IsEmptyResponse(r) THEN ValueError("Empty response from async LLM call")
    ELSE IF HasEmptyContent(r) THEN ValueError("Empty content in async LLM response")
    ELSE NoException

\* never stopping
StopAfterAttempt_Never(n) == FALSE

\* stopping one attempt late
StopAfterAttempt_Late(n) == n > max_retries

\* stopping one attempt early
StopAfterAttempt_Early(n) == n >= max_retries - 1

\* tenacity's stop_after_attempt(self.max_retries)
StopAfterAttempt(n) == n >= max_retries

\* tenacity's wait_exponential(multiplier=self.min_seconds, max=self.max_seconds)
\* after attempt number n (exp_base 2, min 0)
WaitExponential(n) ==
    LET exp == Pow(2, n - 1)
        res == Rat(min_seconds * exp, 1)
    IN PyMax(Rat(0, 1), PyMin(res, Rat(max_seconds, 1)))

\* the delay without its cap
Agenerate_WaitTime_Uncapped(a) ==
    Rat(min_seconds * Pow(factor[1], a), Pow(factor[2], a))

\* min(self.max_seconds, self.min_seconds * (self.factor**attempt))
Agenerate_WaitTime(a) ==
    PyMin(Rat(max_seconds, 1),
          Rat(min_seconds * Pow(factor[1], a), Pow(factor[2], a)))

\* the raise that follows the loop instead of the attempt's exception
Generate_Reraise_Substitute(e) == RuntimeError("All LLM call attempts failed")

\* what leaves _generate once tenacity stops, e being the last attempt's
\* exception (reraise=True)
Generate_Reraise(e) == e

\* what the bare "raise" of _agenerate's handler raises, e being the exception
\* in flight
Agenerate_Reraise(e) == e

(***************************************************************************)
(* Init                                                                    *)
(***************************************************************************)
NoOutcome == [kind |-> "none", exc |-> NoException, value |-> NoneResult]

\* no call of the wrapper has started
WrapperFresh ==
    /\ llm_calls = 0
    /\ llm_outcome = NoOutcome
    /\ llm_failures = 0
    /\ state = [v \in Variants |-> "Attempting"]
    /\ calls = [v \in Variants |-> 0]
    /\ attempt_number = 1
    /\ last_exception = NoException
    /\ attempt = 0
    /\ wait_time = [v \in Variants |-> Rat(0, 1)]
    /\ sleeps = [v \in Variants |-> <<>>]
    /\ log = [v \in Variants |-> <<>>]
    /\ result = [v \in Variants |-> NoneResult]
    /\ raised = [v \in Variants |-> NoException]

InitRetry ==
    /\ max_retries \in MaxRetriesValues
    /\ min_seconds \in MinSecondsValues
    /\ max_seconds \in MaxSecondsValues
    /\ factor \in FactorValues
    /\ verbose \in BOOLEAN
    /\ WrapperFresh

\* a wrapper with __init__'s defaults, not called
RetryIdle ==
    /\ max_retries = 5
    /\ min_seconds = 1
    /\ max_seconds = 60
    /\ factor = <<2, 1>>
    /\ verbose = FALSE
    /\ WrapperFresh

\* no tool has been called
ToolsIdle ==
    /\ api_key = "unset"
    /\ rag_store = {}
    /\ tool = "none"
    /\ tool_env = NoEnv
    /\ tool_returned = "None"
    /\ tool_raised = "None"

Init ==
    InitRetry /\ ToolsIdle /\ FlowIdle /\ RagIdle /\ CachingIdle /\ PatchIdle
        /\ ParserIdle

(***************************************************************************)
(* The underlying LLM: the outcome of its next call                        *)
(***************************************************************************)
Terminal == {"Succeeded", "Exhausted", "Cancelled"}

LLM_Respond(o) ==
    /\ llm_calls <= MaxRetries
    /\ \A v \in Variants : state[v] \in Terminal \/ calls[v] = llm_calls
    /\ \E v \in Variants : state[v] \notin Terminal
    /\ llm_calls' = llm_calls + 1
    /\ llm_outcome' = o
    /\ llm_failures' = llm_failures + (IF o \in FailingOutcomes THEN 1 ELSE 0)
    /\ UNCHANGED <<nonRetryVars, config, state, calls, syncLocals, attempt, wait_time, sleeps,
                   log, result, raised>>

(***************************************************************************)
(* RetryLLMWrapper._generate                                               *)
(***************************************************************************)
\* one pass of "for attempt in retryer: with attempt:" and tenacity's
\* decision that follows it
Generate_Attempt ==
    LET v == "_generate"
        o == llm_outcome
        log1 == IF verbose /\ attempt_number > 1
                THEN Append(log[v], "WARNING Retrying LLM call")
                ELSE log[v]
        e == IF o.kind = "raise" THEN o.exc ELSE Generate_Validate(o.value)
    IN
    /\ state[v] = "Attempting"
    /\ calls[v] < llm_calls
    /\ calls' = [calls EXCEPT ![v] = @ + 1]
    /\ IF e = NoException
       THEN /\ state' = [state EXCEPT ![v] = "Succeeded"]
            /\ result' = [result EXCEPT ![v] = o.value]
            /\ log' = [log EXCEPT ![v] = log1]
            /\ UNCHANGED <<last_exception, wait_time, raised>>
       ELSE /\ last_exception' = e
            /\ log' = [log EXCEPT ![v] = Append(log1, "WARNING LLM call failed")]
            /\ IF StopAfterAttempt(attempt_number)
               THEN /\ state' = [state EXCEPT ![v] = "Exhausted"]
                    /\ raised' = [raised EXCEPT ![v] = Generate_Reraise(e)]
                    /\ UNCHANGED wait_time
               ELSE /\ state' = [state EXCEPT ![v] = "Retrying"]
                    /\ wait_time' = [wait_time EXCEPT ![v] = WaitExponential(attempt_number)]
                    /\ UNCHANGED raised
            /\ UNCHANGED result
    /\ UNCHANGED <<nonRetryVars, config, llm, attempt_number, attempt, sleeps>>

\* tenacity's DoSleep: prepare_for_next_attempt, then sleep
Generate_Sleep ==
    LET v == "_generate" IN
    /\ state[v] = "Retrying"
    /\ attempt_number' = attempt_number + 1
    /\ sleeps' = [sleeps EXCEPT ![v] = Append(@, wait_time[v])]
    /\ state' = [state EXCEPT ![v] = "Attempting"]
    /\ UNCHANGED <<nonRetryVars, config, llm, calls, last_exception, attempt, wait_time, log,
                   result, raised>>

(***************************************************************************)
(* RetryLLMWrapper._agenerate                                              *)
(***************************************************************************)
\* giving up only once one more attempt has failed
Agenerate_GiveUp_Late(a) == a > max_retries

\* "if attempt >= self.max_retries:" in the except clause, before the sleep
Agenerate_GiveUp(a) == a >= max_retries

\* one pass of the body of "while attempt < self.max_retries", up to the
\* return, the raise or the sleep
Agenerate_Attempt ==
    LET v == "_agenerate"
        o == llm_outcome
        log1 == IF verbose /\ attempt > 0
                THEN Append(log[v], "WARNING Retrying async LLM call")
                ELSE log[v]
        e == IF o.kind = "raise" THEN o.exc ELSE Agenerate_Validate(o.value)
        log2 == Append(log1, "WARNING Async LLM call failed")
    IN
    /\ state[v] = "Attempting"
    /\ attempt < max_retries
    /\ calls[v] < llm_calls
    /\ calls' = [calls EXCEPT ![v] = @ + 1]
    /\ IF e = NoException
       THEN /\ state' = [state EXCEPT ![v] = "Succeeded"]
            /\ result' = [result EXCEPT ![v] = o.value]
            /\ log' = [log EXCEPT ![v] = log1]
            /\ UNCHANGED <<attempt, wait_time, raised>>
       ELSE /\ attempt' = attempt + 1
            /\ IF Agenerate_GiveUp(attempt')
               THEN /\ log' = [log EXCEPT ![v] =
                                 Append(log2, "ERROR All async LLM call attempts failed")]
                    /\ state' = [state EXCEPT ![v] = "Exhausted"]
                    /\ raised' = [raised EXCEPT ![v] = Agenerate_Reraise(e)]
                    /\ UNCHANGED wait_time
               ELSE /\ log' = [log EXCEPT ![v] = log2]
                    /\ state' = [state EXCEPT ![v] = "Retrying"]
                    /\ wait_time' = [wait_time EXCEPT ![v] = Agenerate_WaitTime(attempt')]
                    /\ UNCHANGED raised
            /\ UNCHANGED result
    /\ UNCHANGED <<nonRetryVars, config, llm, syncLocals, sleeps>>

\* "await asyncio.sleep(wait_time)", back to the loop's head
Agenerate_Sleep ==
    LET v == "_agenerate" IN
    /\ state[v] = "Retrying"
    /\ sleeps' = [sleeps EXCEPT ![v] = Append(@, wait_time[v])]
    /\ state' = [state EXCEPT ![v] = "Attempting"]
    /\ UNCHANGED <<nonRetryVars, config, llm, calls, syncLocals, attempt, wait_time, log,
                   result, raised>>

\* the loop's condition is false: the raise after the loop
Agenerate_LoopExit ==
    LET v == "_agenerate" IN
    /\ state[v] = "Attempting"
    /\ ~(attempt < max_retries)
    /\ state' = [state EXCEPT ![v] = "Exhausted"]
    /\ raised' = [raised EXCEPT ![v] =
                    RuntimeError("All async LLM call attempts failed")]
    /\ UNCHANGED <<nonRetryVars, config, llm, calls, syncLocals, attempt, wait_time, sleeps,
                   log, result>>

Next ==
    \/ \E o \in Outcomes : LLM_Respond(o)
    \/ Generate_Attempt
    \/ Generate_Sleep
    \/ Agenerate_Attempt
    \/ Agenerate_Sleep
    \/ Agenerate_LoopExit

Spec == Init /\ [][Next]_vars

\* each underlying call returns, each sleep returns, and the wrapper's own
\* code between them runs on
Fairness ==
    /\ WF_vars(\E o \in Outcomes : LLM_Respond(o))
    /\ WF_vars(Generate_Attempt)
    /\ WF_vars(Generate_Sleep)
    /\ WF_vars(Agenerate_Attempt)
    /\ WF_vars(Agenerate_Sleep)
    /\ WF_vars(Agenerate_LoopExit)

SpecLive == Init /\ [][Next]_vars /\ Fairness

(***************************************************************************)
(* RetryLLMWrapper._agenerate: its task is cancelled                       *)
(***************************************************************************)
\* what a cancelled await raises
CancelledError == [type |-> "CancelledError", msg |-> ""]

\* catching every BaseException
Agenerate_Catches_BaseException(e) == TRUE

\* "except Exception as e": asyncio.CancelledError derives from BaseException
Agenerate_Catches(e) == e.type # "CancelledError"

\* the task is cancelled while it awaits self.llm._agenerate: the await
\* raises CancelledError inside the try block
Agenerate_CancelledInCall ==
    LET v == "_agenerate"
        e == CancelledError
        log1 == IF verbose /\ attempt > 0
                THEN Append(log[v], "WARNING Retrying async LLM call")
                ELSE log[v]
        log2 == Append(log1, "WARNING Async LLM call failed")
    IN
    /\ state[v] = "Attempting"
    /\ attempt < max_retries
    /\ calls[v] < llm_calls
    /\ calls' = [calls EXCEPT ![v] = @ + 1]
    /\ IF ~Agenerate_Catches(e)
       THEN /\ state' = [state EXCEPT ![v] = "Cancelled"]
            /\ raised' = [raised EXCEPT ![v] = e]
            /\ log' = [log EXCEPT ![v] = log1]
            /\ UNCHANGED <<attempt, wait_time>>
       ELSE /\ attempt' = attempt + 1
            /\ IF Agenerate_GiveUp(attempt')
               THEN /\ log' = [log EXCEPT ![v] =
                                 Append(log2, "ERROR All async LLM call attempts failed")]
                    /\ state' = [state EXCEPT ![v] = "Exhausted"]
                    /\ raised' = [raised EXCEPT ![v] = Agenerate_Reraise(e)]
                    /\ UNCHANGED wait_time
               ELSE /\ log' = [log EXCEPT ![v] = log2]
                    /\ state' = [state EXCEPT ![v] = "Retrying"]
                    /\ wait_time' = [wait_time EXCEPT ![v] = Agenerate_WaitTime(attempt')]
                    /\ UNCHANGED raised
    /\ UNCHANGED <<nonRetryVars, config, llm, syncLocals, sleeps, result>>

\* the task is cancelled while it awaits asyncio.sleep: the await raises
\* CancelledError inside the except clause, which no clause of the try catches
Agenerate_CancelledInSleep ==
    LET v == "_agenerate" IN
    /\ state[v] = "Retrying"
    /\ state' = [state EXCEPT ![v] = "Cancelled"]
    /\ raised' = [raised EXCEPT ![v] = CancelledError]
    /\ UNCHANGED <<nonRetryVars, config, llm, calls, syncLocals, attempt, wait_time,
                   sleeps, log, result>>

NextCancel ==
    \/ \E o \in Outcomes : LLM_Respond(o)
    \/ Generate_Attempt
    \/ Generate_Sleep
    \/ Agenerate_Attempt
    \/ Agenerate_Sleep
    \/ Agenerate_LoopExit
    \/ Agenerate_CancelledInCall
    \/ Agenerate_CancelledInSleep

SpecCancel == Init /\ [][NextCancel]_vars

(***************************************************************************)
(* The tools: KrakenTickerInfoTool, AlphaVantageCompanyOverviewTool,       *)
(* SaveToRagTool                                                           *)
(***************************************************************************)
Returned(s) == [returned |-> s, raised |-> "None"]
Raised(e) == [returned |-> "None", raised |-> e]

\* requests.get, raise_for_status and response.json: the exception raised,
\* "None" when data is there
HttpError(http) ==
    IF http.get # "ok" THEN http.get
    ELSE IF http.status >= 400 THEN "HTTPError"
    ELSE IF http.json # "ok" THEN http.json
    ELSE "None"

\* the try block of KrakenTickerInfoTool._run
Kraken_Try(http) ==
    LET data == http.body IN
    IF HttpError(http) # "None" THEN Raised(HttpError(http))
    ELSE IF data.top # "dict" THEN Raised("AttributeError")
    ELSE IF data.error \in {"list", "dict"} THEN Returned("Error from Kraken API")
    ELSE IF data.result \in {"null", "list", "empty_list"} THEN Raised("AttributeError")
    ELSE IF data.result \in {"absent", "empty_dict"} THEN Returned("No data found for pair")
    ELSE Returned("ticker data")

\* KrakenTickerInfoTool._run: the try block under its two except clauses
Kraken_Outcome(http) ==
    LET out == Kraken_Try(http) IN
    IF out.raised \in RequestExceptions
    THEN Returned("Error fetching data from Kraken")
    ELSE IF out.raised = "json.JSONDecodeError"
    THEN Returned("Error: Failed to parse JSON response from Kraken.")
    ELSE out

\* the try block of AlphaVantageCompanyOverviewTool._run
AlphaVantage_Try(http) ==
    LET data == http.body IN
    IF HttpError(http) # "None" THEN Raised(HttpError(http))
    ELSE IF data.falsy THEN Returned("No data found for ticker")
    ELSE IF data.top \in {"int", "bool"} THEN Raised("TypeError")
    ELSE IF data.note THEN Returned("No data found for ticker")
    ELSE Returned("company overview")

\* AlphaVantageCompanyOverviewTool._run
AlphaVantage_Outcome(key, http) ==
    LET out == AlphaVantage_Try(http) IN
    IF key \in {"unset", ""}
    THEN Returned("Error: ALPHA_VANTAGE_API_KEY environment variable not set.")
    ELSE IF out.raised \in RequestExceptions
    THEN Returned("Error fetching data from Alpha Vantage")
    ELSE IF out.raised = "json.JSONDecodeError"
    THEN Returned("Error: Failed to parse JSON response from Alpha Vantage.")
    ELSE out

\* SaveToRagTool._run, add being what self._rag_tool.add does
SaveToRag_Outcome(add) ==
    IF add = "stored" THEN Returned("stored") ELSE Raised(add)

InitTools ==
    /\ RetryIdle
    /\ api_key \in ApiKeys
    /\ rag_store = {}
    /\ tool = "none"
    /\ tool_env = NoEnv
    /\ tool_returned = "None"
    /\ tool_raised = "None"
    /\ FlowIdle
    /\ RagIdle
    /\ CachingIdle
    /\ PatchIdle
    /\ ParserIdle

Kraken_Run(http) ==
    /\ tool' = "KrakenTickerInfoTool"
    /\ tool_env' = http
    /\ tool_returned' = Kraken_Outcome(http).returned
    /\ tool_raised' = Kraken_Outcome(http).raised
    /\ UNCHANGED <<nonToolVars, api_key, rag_store>>

AlphaVantage_Run(http) ==
    /\ tool' = "AlphaVantageCompanyOverviewTool"
    /\ tool_env' = IF api_key \in {"unset", ""} THEN NoEnv ELSE http
    /\ tool_returned' = AlphaVantage_Outcome(api_key, http).returned
    /\ tool_raised' = AlphaVantage_Outcome(api_key, http).raised
    /\ UNCHANGED <<nonToolVars, api_key, rag_store>>

SaveToRag_Run(text, add) ==
    /\ tool' = "SaveToRagTool"
    /\ tool_env' = StorageEnv(add)
    /\ rag_store' = IF add = "stored" THEN rag_store \cup {text} ELSE rag_store
    /\ tool_returned' = SaveToRag_Outcome(add).returned
    /\ tool_raised' = SaveToRag_Outcome(add).raised
    /\ UNCHANGED <<nonToolVars, api_key>>

NextTools ==
    \/ \E http \in HttpExchanges(KrakenBodies) : Kraken_Run(http)
    \/ \E http \in HttpExchanges(AlphaVantageBodies) : AlphaVantage_Run(http)
    \/ \E text \in Texts, add \in StorageOutcomes : SaveToRag_Run(text, add)

SpecTools == InitTools /\ [][NextTools]_vars

(***************************************************************************)
(* Properties of the retry wrapper                                         *)
(***************************************************************************)
AllFailedSoFar == llm_calls > 0 /\ llm_failures = llm_calls

\* C1: with max_retries = N >= 1 and an underlying call that fails every
\* time, each variant makes at most N calls, returns nothing, and once it
\* has finished it has made exactly N calls and raised.
C1_PermanentFailure ==
    \A v \in Variants :
        (max_retries >= 1 /\ (AllFailedSoFar \/ llm_calls = 0)) =>
            /\ calls[v] <= max_retries
            /\ state[v] # "Succeeded"
            /\ result[v] = NoneResult
            /\ state[v] \in Terminal =>
                   /\ state[v] = "Exhausted"
                   /\ calls[v] = max_retries
                   /\ raised[v] # NoException

C1_Witness ==
    /\ max_retries = MaxRetries
    /\ AllFailedSoFar
    /\ \A v \in Variants : state[v] = "Exhausted" /\ calls[v] = max_retries

\* the underlying call failed K times and then returned a valid result
FailedThenValid ==
    /\ llm_calls > 0
    /\ llm_outcome \in ValidOutcomes
    /\ llm_failures = llm_calls - 1

\* C2: when the underlying call fails K < max_retries times and then returns
\* a valid result, a variant that has finished has returned exactly that
\* result after K+1 calls and K sleeps; one that has not finished has made at
\* most K+1 calls.
C2_SuccessAfterFailures ==
    \A v \in Variants :
        (FailedThenValid /\ llm_failures < max_retries) =>
            /\ calls[v] <= llm_failures + 1
            /\ Len(sleeps[v]) <= llm_failures
            /\ state[v] \in Terminal =>
                   /\ state[v] = "Succeeded"
                   /\ result[v] = llm_outcome.value
                   /\ raised[v] = NoException
                   /\ calls[v] = llm_failures + 1
                   /\ Len(sleeps[v]) = llm_failures

C2_Witness ==
    /\ FailedThenValid
    /\ llm_failures = 2
    /\ \A v \in Variants : state[v] = "Succeeded" /\ Len(sleeps[v]) = 2

\* min(max_seconds, min_seconds * factor^i) as a rational in lowest terms
SpecDelay(i) ==
    LET d == Rat(min_seconds * Pow(factor[1], i), Pow(factor[2], i))
        m == Rat(max_seconds, 1)
    IN IF RatLeq(m, d) THEN m ELSE d

NonNegativeDurations == min_seconds >= 0 /\ max_seconds >= 0

\* C3: the i-th delay slept (i counted from 0) is
\* min(max_seconds, min_seconds * factor^i), in both variants (durations that
\* are not negative are enough to decide it).
C3_DelayFormula ==
    \A v \in Variants :
        NonNegativeDurations =>
            \A i \in 1 .. Len(sleeps[v]) : sleeps[v][i] = SpecDelay(i - 1)

NonDecreasing(ds) ==
    \A i \in 1 .. Len(ds) - 1 : RatLeq(ds[i], ds[i + 1])

Capped(ds) ==
    \A i \in 1 .. Len(ds) : RatLeq(ds[i], Rat(max_seconds, 1))

\* C4 as stated: for every configuration the wrapper accepts with
\* max_retries >= 1, whatever its factor, the delays slept within one call are
\* non-decreasing and each is at most max_seconds (durations that are not
\* negative are enough to decide it).
C4_AnyConfiguration ==
    \A v \in Variants :
        (max_retries >= 1 /\ NonNegativeDurations) =>
            NonDecreasing(sleeps[v]) /\ Capped(sleeps[v])

GrowingBackoff ==
    /\ NonNegativeDurations
    /\ factor[1] >= factor[2]

\* C4 as amended: when min_seconds >= 0, max_seconds >= 0 and factor >= 1,
\* the delays slept within one call are non-decreasing and each is at most
\* max_seconds.
C4_GrowingBackoff ==
    \A v \in Variants :
        (max_retries >= 1 /\ GrowingBackoff) =>
            NonDecreasing(sleeps[v]) /\ Capped(sleeps[v])

C4_Witness ==
    /\ GrowingBackoff
    /\ \A v \in Variants :
           /\ Len(sleeps[v]) = 2
           /\ RatLess(sleeps[v][1], sleeps[v][2])
    /\ \E v \in Variants : sleeps[v][2] = Rat(max_seconds, 1)

\* the delay a variant computes after its n-th attempt has failed
BackoffAfter(v, n) ==
    IF v = "_generate" THEN WaitExponential(n) ELSE Agenerate_WaitTime(n)

\* C5: an attempt whose outcome is a failing one, whether an exception of any
\* type, None, no generations, or empty or blank text, consumes one attempt
\* and leads to the same next state: exhaustion when it was the max_retries-th
\* attempt, otherwise the backoff of that attempt and then the next attempt;
\* nothing is returned.
C5_EmptyLikeException ==
    \A v \in Variants :
        (llm_calls > 0 /\ calls[v] = llm_calls /\ llm_outcome \in FailingOutcomes) =>
            /\ state[v] \in {"Retrying", "Attempting", "Exhausted"}
            /\ state[v] = "Exhausted" <=> calls[v] >= max_retries
            /\ state[v] = "Exhausted" => raised[v] # NoException
            /\ result[v] = NoneResult
            /\ state[v] = "Retrying" =>
                   /\ wait_time[v] = BackoffAfter(v, calls[v])
                   /\ Len(sleeps[v]) = calls[v] - 1
            /\ state[v] = "Attempting" => Len(sleeps[v]) = calls[v]

C5_Witness ==
    /\ llm_calls = 2
    /\ llm_outcome = Returns(LLMResult(<< <<TextBlank>> >>))
    /\ \A v \in Variants : calls[v] = 2 /\ state[v] = "Retrying"

\* the ValueErrors the validation of a variant raises
ValidationErrors(v) ==
    IF v = "_generate"
    THEN { ValueError("Empty response from LLM call"),
           ValueError("Empty content in LLM response") }
    ELSE { ValueError("Empty response from async LLM call"),
           ValueError("Empty content in async LLM response") }

HasVisibleText(text) ==
    \E j \in 1 .. Len(text) : text[j] \notin Whitespace

NonEmptyResult(r) ==
    /\ ~r.isNone
    /\ Len(r.generations) >= 1
    /\ \A i \in 1 .. Len(r.generations) :
           /\ Len(r.generations[i]) >= 1
           /\ HasVisibleText(r.generations[i][1])

\* C7: a result a variant returns has at least one generation list, and the
\* (first) generation of every prompt's list has text that is neither empty
\* nor only whitespace.
C7_ReturnsNonEmpty ==
    \A v \in Variants :
        state[v] = "Succeeded" => NonEmptyResult(result[v])

C7_Witness ==
    \A v \in Variants :
        /\ state[v] = "Succeeded"
        /\ Len(result[v].generations) = 2
        /\ calls[v] >= 2

\* C8: for the same configuration and the same underlying outcomes, the two
\* variants make the same number of calls, sleep the same delays and end the
\* same way (durations that are not negative and max_retries >= 1 are enough
\* to decide it).
C8_SameSemantics ==
    (/\ max_retries >= 1
     /\ NonNegativeDurations
     /\ \A v \in Variants : state[v] \in Terminal) =>
        /\ calls["_generate"] = calls["_agenerate"]
        /\ sleeps["_generate"] = sleeps["_agenerate"]
        /\ state["_generate"] = state["_agenerate"]
        /\ result["_generate"] = result["_agenerate"]
        /\ raised["_generate"].type = raised["_agenerate"].type

FailureEntries(v) ==
    { i \in 1 .. Len(log[v]) :
        log[v][i] \in {"WARNING LLM call failed", "WARNING Async LLM call failed"} }

ExhaustionEntries(v) ==
    { i \in 1 .. Len(log[v]) :
        log[v][i] \in {"ERROR All LLM call attempts failed",
                       "ERROR All async LLM call attempts failed"} }

FailedAttempts(v) ==
    IF state[v] = "Succeeded" THEN calls[v] - 1 ELSE calls[v]

\* C9: in both variants (max_retries >= 1) a run with K failed attempts has
\* logged at least K failure entries, and a run that ended exhausted has
\* logged that all attempts failed.
C9_LogsEveryFailure ==
    \A v \in Variants :
        max_retries >= 1 =>
            /\ Cardinality(FailureEntries(v)) >= FailedAttempts(v)
            /\ state[v] = "Exhausted" => ExhaustionEntries(v) # {}

(***************************************************************************)
(* Properties of the tools                                                 *)
(***************************************************************************)
\* the call met a failure of the tool's own work: a network or HTTP error, a
\* body that is not JSON or not of the expected shape, a missing API key, or
\* a storage failure
ToolWorkFailed ==
    \/ tool_env.get \notin {"ok", "none", "stored"}
    \/ tool_env.status >= 400
    \/ tool_env.json \notin {"ok", "none"}
    \/ tool = "KrakenTickerInfoTool" /\ tool_env.json = "ok"
           /\ (tool_env.body.top # "dict" \/ tool_env.body.result \in {"null", "list"})
    \/ tool = "AlphaVantageCompanyOverviewTool" /\ tool_env.json = "ok"
           /\ tool_env.body.top # "dict"
    \/ tool = "AlphaVantageCompanyOverviewTool" /\ api_key \in {"unset", ""}

\* C10: a tool's _run never raises to the agent; when the tool's own work
\* failed it has returned a message instead.
C10_ToolsNeverRaise ==
    /\ tool_raised = "None"
    /\ (tool # "none" /\ ToolWorkFailed) => tool_returned # "None"

(***************************************************************************)
(* CryptoFlow: kickoff() and the four methods it runs                      *)
(***************************************************************************)
InitFlow ==
    /\ RetryIdle
    /\ ToolsIdle
    /\ runs = 0
    /\ kickoff_status = "idle"
    /\ fs \in [Files -> {Absent, Cached}]
    /\ persisted = [s \in Stages |-> NoRaw]
    /\ FlowFresh
    /\ RagIdle
    /\ CachingIdle
    /\ PatchIdle
    /\ ParserIdle

\* crypto_flow.kickoff() returns once every method has returned
FlowDone(m) == \A s \in Stages : m[s] = "done"

\* a method that does not look for its file
Found_Nothing(s, readable) == "absent"

\* what a method met at os.path.exists(json_file) and at the open / read
Found(s, readable) ==
    IF fs[JsonFile(s)] = Absent THEN "absent"
    ELSE IF readable THEN "readable" ELSE "unreadable"

\* a method without the return: it goes on to its crew after a load too
Load_Returns_Never(f) == FALSE

\* the "return" that ends the try block of the load: reached when the file
\* was there and open / read raised nothing
Load_Returns(f) == f = "readable"

\* the except clause of kickoff(): logger.critical, then raise
Kickoff_Reraise_Swallow(e) == NoException
Kickoff_Reraise(e) == e

\* what the run that has ended leaves to the next one when the crew of each
\* of its methods returned and each file holds what the crew returned: per
\* method, that result.raw
Persisted ==
    IF \A s \in Stages : crew_raw[s] \in Raws /\ fs[JsonFile(s)] = crew_raw[s]
    THEN crew_raw
    ELSE [s \in Stages |-> NoRaw]

\* kickoff(): CryptoFlow(state=CryptoState()), then crypto_flow.kickoff()
Kickoff_Call ==
    /\ kickoff_status # "running"
    /\ runs < MaxRuns
    /\ runs' = runs + 1
    /\ kickoff_status' = "running"
    /\ kickoff_raised' = NoException
    /\ method' = [s \in Stages |-> "pending"]
    /\ started' = <<>>
    /\ flow_state' = CryptoState
    /\ inputs' = [k \in StateKeys |-> NoInput]
    /\ found' = [s \in Stages |-> "none"]
    /\ crew_kickoffs' = [s \in Stages |-> 0]
    /\ crew_raw' = [s \in Stages |-> NoRaw]
    /\ flow_log' = {}
    /\ persisted' = Persisted
    /\ UNCHANGED <<nonFlowVars, fs>>

\* a method starts once the methods it listens to have returned: it looks for
\* its file; a file that loads ends the method, anything else starts its crew
\* (report opens its file without reading it and leaves self.state alone,
\* and gives the three results to its crew)
Stage_Begin(s, readable) ==
    /\ kickoff_status = "running"
    /\ method[s] = "pending"
    /\ \A t \in Listens(s) : method[t] = "done"
    /\ started' = Append(started, s)
    /\ found' = [found EXCEPT ![s] = Found(s, readable)]
    /\ IF Load_Returns(Found(s, readable))
       THEN /\ method' = [method EXCEPT ![s] = "done"]
            /\ flow_state' = IF s \in AnalysisStages
                             THEN [flow_state EXCEPT ![StateKey(s)] = fs[JsonFile(s)]]
                             ELSE flow_state
            /\ flow_log' = flow_log \cup {<<"info", s, "loaded">>}
            /\ UNCHANGED <<inputs, crew_kickoffs>>
       ELSE /\ method' = [method EXCEPT ![s] = "crew"]
            /\ inputs' = IF s = "report" THEN flow_state ELSE inputs
            /\ crew_kickoffs' = [crew_kickoffs EXCEPT ![s] = @ + 1]
            /\ flow_log' = flow_log \cup
                   IF Found(s, readable) = "unreadable"
                   THEN {<<"warning", s, "load failed">>} ELSE {}
            /\ UNCHANGED flow_state
    /\ kickoff_status' = IF FlowDone(method') THEN "completed" ELSE "running"
    /\ UNCHANGED <<nonFlowVars, runs, kickoff_raised, fs, crew_raw, persisted>>

\* the file after open(json_file, "w") and f.write(result.raw)
Written_Nothing(old, raw, write) == old
\* open(json_file, "x"): a file that exists is left as it is
Written_IfAbsent(old, raw, write) ==
    IF old # Absent THEN old
    ELSE IF write = "written" THEN raw
    ELSE IF write = "open fails" THEN old ELSE Truncated
Written(old, raw, write) ==
    CASE write = "written" -> raw
      [] write = "open fails" -> old
      [] write = "write fails" -> Truncated

\* the crew returns: the method keeps result.raw in self.state (report does
\* not) and saves it; a failed save is a warning
Crew_Return(s, raw, write) ==
    /\ kickoff_status = "running"
    /\ method[s] = "crew"
    /\ crew_raw' = [crew_raw EXCEPT ![s] = raw]
    /\ flow_state' = IF s \in AnalysisStages
                     THEN [flow_state EXCEPT ![StateKey(s)] = raw]
                     ELSE flow_state
    /\ fs' = [fs EXCEPT ![JsonFile(s)] = Written(@, raw, write)]
    /\ flow_log' = flow_log \cup
           IF write = "written" THEN {<<"info", s, "completed">>}
           ELSE {<<"info", s, "completed">>, <<"warning", s, "save failed">>}
    /\ method' = [method EXCEPT ![s] = "done"]
    /\ kickoff_status' = IF FlowDone(method') THEN "completed" ELSE "running"
    /\ UNCHANGED <<nonFlowVars, runs, kickoff_raised, started, inputs, found,
                   crew_kickoffs, persisted>>

\* the crew raises: the method logs the error and raises, no other method is
\* started, kickoff() logs it as critical and raises
Crew_Raise(s, e) ==
    /\ kickoff_status = "running"
    /\ method[s] = "crew"
    /\ method' = [method EXCEPT ![s] = "failed"]
    /\ flow_log' = flow_log \cup {<<"error", s, "crew failed">>,
                                <<"critical", "kickoff", "workflow failed">>}
    /\ kickoff_raised' = Kickoff_Reraise(e)
    /\ kickoff_status' = "raised"
    /\ UNCHANGED <<nonFlowVars, runs, started, flow_state, inputs, fs, found,
                   crew_kickoffs, crew_raw, persisted>>

NextFlow ==
    \/ Kickoff_Call
    \/ \E s \in Stages, readable \in BOOLEAN : Stage_Begin(s, readable)
    \/ \E s \in Stages, raw \in Raws, write \in WriteOutcomes :
           Crew_Return(s, raw, write)
    \/ \E s \in Stages, e \in CrewExceptions : Crew_Raise(s, e)

SpecFlow == InitFlow /\ [][NextFlow]_vars

(***************************************************************************)
(* C11..C14: the pipeline                                                  *)
(***************************************************************************)
HasStarted(order, t) == \E i \in 1 .. Len(order) : order[i] = t

\* C11: when the crew of any stage raises, the stage logs the error and
\* raises, kickoff() logs and raises the crew's exception, and the run is over:
\* the step sets no result field and writes no file, the failing stage is the
\* last one started, no crew is left running, no stage that was not started
\* has had its crew started, and nothing of the run moves afterwards.
C11_CrewFailureEndsRun ==
    [][\A s \in Stages :
        method'[s] = "failed" =>
            /\ <<"error", s, "crew failed">> \in flow_log'
            /\ <<"critical", "kickoff", "workflow failed">> \in flow_log'
            /\ kickoff_status' = "raised"
            /\ kickoff_raised' \in CrewExceptions
            /\ started'[Len(started')] = s
            /\ \A t \in Stages : method'[t] # "crew"
            /\ \A t \in Stages : ~HasStarted(started', t) => crew_kickoffs'[t] = 0
            /\ s \in AnalysisStages => flow_state'[StateKey(s)] = ""
            /\ found'[s] = "absent" => fs'[JsonFile(s)] = Absent
            /\ crew_raw'[s] = NoRaw
            /\ fs' = fs
            /\ flow_state' = flow_state
            /\ crew_kickoffs' = crew_kickoffs
            /\ started' = started
      ]_vars

\* the crypto crew has raised after the stock crew ran and returned and the
\* ETF results were loaded from their file
C11_Witness ==
    /\ method["check_crypto"] = "failed"
    /\ found["check_crypto"] = "unreadable"
    /\ crew_raw["check_stock"] \in Raws
    /\ found["check_etf"] = "readable"
    /\ kickoff_status = "raised"

PipelineOrder == <<"check_stock", "check_etf", "check_crypto", "report">>

\* C12: in every run the stages started so far are a prefix of stock, ETF,
\* crypto, report (so none starts twice), a stage has started only if every
\* stage before it has completed, and at most one stage is running.
C12_SequentialOrder ==
    /\ Len(started) <= 4
    /\ \A i \in 1 .. Len(started) : started[i] = PipelineOrder[i]
    /\ \A i \in 1 .. 4 :
          method[PipelineOrder[i]] # "pending" =>
              /\ HasStarted(started, PipelineOrder[i])
              /\ \A j \in 1 .. (i - 1) : method[PipelineOrder[j]] = "done"
    /\ Cardinality({ s \in Stages : method[s] = "crew" }) <= 1

\* a run in which all four stages ran their crews, the report crew running
\* last while the three others have completed
C12_Witness ==
    /\ started = PipelineOrder
    /\ method["report"] = "crew"
    /\ \A s \in AnalysisStages : crew_kickoffs[s] = 1 /\ method[s] = "done"

\* the save of a stage failed: the file could not be opened or the write broke
SaveFailed(s) ==
    /\ <<"warning", s, "save failed">> \in flow_log
    /\ fs[JsonFile(s)] \in {Absent, Truncated}

C14_OwnFileOnly ==
    [][/\ \A s, t \in Stages : s # t => JsonFile(s) # JsonFile(t)
       /\ \A s \in Stages :
             method'[s] # method[s] =>
                 \A t \in Stages \ {s} : fs'[JsonFile(t)] = fs[JsonFile(t)]
       /\ \A s \in Stages :
             fs'[JsonFile(s)] # fs[JsonFile(s)] =>
                 method[s] = "crew" /\ method'[s] = "done"
      ]_vars

\* the ETF crew has returned and its result is saved, next to the files an
\* earlier session left for the stock and the crypto stage
C14_Witness ==
    /\ crew_raw["check_etf"] \in Raws
    /\ fs[JsonFile("check_etf")] = crew_raw["check_etf"]
    /\ fs[JsonFile("check_stock")] = Cached
    /\ fs[JsonFile("check_crypto")] = Cached
    /\ fs[JsonFile("report")] = Absent

(***************************************************************************)
(* get_rag_tools, update_market_data, test_rag_integration                 *)
(***************************************************************************)
\* config = DEFAULT_RAG_CONFIG.copy() copies the outer dictionary only, so
\* config["vectordb"] is DEFAULT_RAG_CONFIG["vectordb"] itself: with a suffix,
\* the dictionary every configuration shares gets a new "config" entry that
\* names the suffix's collection. The value is the collection it names after.
BuildConfig(shared, suffix) ==
    IF suffix # NoSuffix THEN CollectionName(suffix) ELSE shared

\* RagTool(config=config, ...): the tool works on the collection its
\* configuration names when it is constructed
RagTool(shared, suffix) == [suffix |-> suffix, collection |-> shared]

\* self._rag_tool.add(source=text, data_type="text") through a tool
Add(store, t) == [store EXCEPT ![t.collection] = @ \cup {t.suffix}]

\* rag_tool.run(query): what the tool's collection holds
Retrieve(store, t) == [through |-> t.suffix, texts |-> store[t.collection]]

InitRag ==
    /\ RetryIdle
    /\ ToolsIdle
    /\ FlowIdle
    /\ RagIdle
    /\ CachingIdle
    /\ PatchIdle
    /\ ParserIdle

get_rag_tools(collection_suffix) ==
    /\ Len(rag_tools) < MaxTools
    /\ vectordb_config' = BuildConfig(vectordb_config, collection_suffix)
    /\ rag_tools' = Append(rag_tools, RagTool(vectordb_config', collection_suffix))
    /\ UNCHANGED <<nonRagVars, collections, retrieved>>

\* stored: whether some ticker came with a shortName and was saved
update_market_data(collection_suffix, stored) ==
    /\ vectordb_config' = BuildConfig(vectordb_config, collection_suffix)
    /\ collections' =
           IF stored
           THEN Add(collections, RagTool(vectordb_config', collection_suffix))
           ELSE collections
    /\ UNCHANGED <<nonRagVars, rag_tools, retrieved>>

\* an agent saves text through the SaveToRagTool of pair i
SaveToRag_Add(i) ==
    /\ i \in 1 .. Len(rag_tools)
    /\ collections' = Add(collections, rag_tools[i])
    /\ UNCHANGED <<nonRagVars, vectordb_config, rag_tools, retrieved>>

\* an agent asks the RagTool of pair i
RagTool_Run(i) ==
    /\ i \in 1 .. Len(rag_tools)
    /\ retrieved' = Retrieve(collections, rag_tools[i])
    /\ UNCHANGED <<nonRagVars, vectordb_config, rag_tools, collections>>

\* the script: both configurations are built, then both tools, then the
\* crypto and the ETF text are saved and the crypto tool is asked about ETFs
test_rag_integration ==
    LET crypto_config == BuildConfig(vectordb_config, "crypto")
        etf_config == BuildConfig(crypto_config, "etf")
        crypto_rag == RagTool(etf_config, "crypto")
        etf_rag == RagTool(etf_config, "etf")
        saved == Add(Add(collections, crypto_rag), etf_rag)
    IN /\ vectordb_config' = etf_config
       /\ collections' = saved
       /\ retrieved' = Retrieve(saved, crypto_rag)
       /\ UNCHANGED <<nonRagVars, rag_tools>>

NextRag ==
    \/ \E x \in CollectionSuffixes : get_rag_tools(x)
    \/ \E x \in CollectionSuffixes, stored \in BOOLEAN : update_market_data(x, stored)
    \/ \E i \in 1 .. MaxTools : SaveToRag_Add(i)
    \/ \E i \in 1 .. MaxTools : RagTool_Run(i)
    \/ test_rag_integration

SpecRag == InitRag /\ [][NextRag]_vars

(***************************************************************************)
(* C15: isolation of the domains' collections                              *)
(***************************************************************************)
CollectionOf(domain) ==
    IF domain = NoSuffix THEN DefaultCollection ELSE CollectionName(domain)

\* C15: the tool built for suffix s works on collection finwiz-s whatever
\* configurations were built before or after it, every collection holds only
\* the texts saved through its own domain's tool, and a retrieval through a
\* domain's tool returns only that domain's texts.
C15_DomainsIsolated ==
    /\ \A i \in 1 .. Len(rag_tools) :
          rag_tools[i].suffix # NoSuffix =>
              rag_tools[i].collection = CollectionName(rag_tools[i].suffix)
    /\ \A c \in CollectionNames : \A d \in collections[c] : c = CollectionOf(d)
    /\ retrieved.texts \subseteq {retrieved.through}

(***************************************************************************)
(* flow_utils.run_crew_with_caching                                        *)
(***************************************************************************)
NameError(name) == [type |-> "NameError", msg |-> name]

\* output_dir = get_output_dir(): the def of get_output_dir is commented out
\* and nothing else in the module binds the name, so the call raises
get_output_dir == [returned |-> "None", raised |-> NameError("get_output_dir")]

\* crew_class().crew().kickoff(inputs=inputs): a result with its raw text, or
\* an exception
CrewOutcomes ==
    { [raw |-> r, raised |-> NoException] : r \in Raws }
        \cup { [raw |-> NoRaw, raised |-> e] : e \in CrewExceptions }

\* the arguments: a file name, a key, a dict or an object as state; the file
\* may exist and state may already hold something under the key
InitCaching ==
    /\ RetryIdle
    /\ ToolsIdle
    /\ FlowIdle
    /\ RagIdle
    /\ cache_args \in [output_filename : Files, state_key : StateKeys,
                       state : {"dict", "object"}]
    /\ cache_file \in {Absent, Cached}
    /\ cache_state \in {"", "stale"}
    /\ cache_crew = 0
    /\ cache_status = "not called"
    /\ cache_raised = NoException
    /\ PatchIdle
    /\ ParserIdle

\* readable: open and read of an existing file succeed; crew: what the crew's
\* kickoff does; write: how saving goes (a failed save is raised here)
run_crew_with_caching(readable, crew, write) ==
    /\ cache_status = "not called"
    /\ IF get_output_dir.raised # NoException
       THEN /\ cache_status' = "raised"
            /\ cache_raised' = get_output_dir.raised
            /\ UNCHANGED <<cache_file, cache_state, cache_crew>>
       ELSE IF cache_file # Absent /\ readable
       THEN /\ cache_state' = cache_file
            /\ cache_status' = "returned"
            /\ UNCHANGED <<cache_file, cache_crew, cache_raised>>
       ELSE /\ cache_crew' = cache_crew + 1
            /\ IF crew.raised # NoException
               THEN /\ cache_status' = "raised"
                    /\ cache_raised' = crew.raised
                    /\ UNCHANGED <<cache_file, cache_state>>
               ELSE /\ cache_state' = crew.raw
                    /\ cache_file' = Written(cache_file, crew.raw, write)
                    /\ cache_status' =
                           IF write = "written" THEN "returned" ELSE "raised"
                    /\ cache_raised' =
                           IF write = "written" THEN NoException
                           ELSE [type |-> "OSError", msg |-> write]
    /\ UNCHANGED <<nonCachingVars, cache_args>>

NextCaching ==
    \E readable \in BOOLEAN, crew \in CrewOutcomes,
       write \in WriteOutcomes : run_crew_with_caching(readable, crew, write)

SpecCaching == InitCaching /\ [][NextCaching]_vars

\* C16: a call of run_crew_with_caching that met its cache file has put the
\* file's content under state_key and has not run the crew; a call that met
\* no file has run the crew once.
C16_RunsCrewWithCaching ==
    cache_status # "not called" =>
        /\ cache_file # Absent => cache_state = cache_file /\ cache_crew = 0
        /\ cache_file = Absent => cache_crew = 1

(***************************************************************************)
(* C17, C18: the retry wrapper's termination and its sleeps                *)
(***************************************************************************)
WrapperStates == {"Attempting", "Succeeded", "Retrying", "Exhausted"}

\* C17: each variant is always in one of Attempting, Succeeded, Retrying,
\* Exhausted, and when max_retries >= 1 and every underlying call and every
\* sleep returns, each variant eventually is Succeeded with a result or
\* Exhausted with an exception raised, and stays so.
C17_AlwaysTerminates ==
    /\ [](\A v \in Variants : state[v] \in WrapperStates)
    /\ max_retries >= 1 =>
          \A v \in Variants :
              <>[](\/ state[v] = "Succeeded" /\ result[v] # NoneResult
                   \/ state[v] = "Exhausted" /\ raised[v] # NoException)

\* with max_retries at its largest, both variants have gone through every
\* attempt and every sleep and have returned the result of the last attempt
C17_Witness ==
    /\ max_retries = MaxRetries
    /\ \A v \in Variants :
          /\ state[v] = "Succeeded"
          /\ result[v] # NoneResult
          /\ calls[v] = MaxRetries
          /\ Len(sleeps[v]) = MaxRetries - 1

\* C18: a variant has slept as many delays as it has made attempts while it
\* is about to make another attempt, and one fewer as soon as an attempt is
\* made: none is slept before the first attempt, none after the attempt that
\* succeeds and none after the attempt that exhausts the retries, so a call
\* that fails max_retries = N >= 1 times has slept N - 1 delays when it raises.
C18_SleepsBetweenAttempts ==
    \A v \in Variants :
        /\ state[v] = "Attempting" => Len(sleeps[v]) = calls[v]
        /\ calls[v] = 0 => sleeps[v] = <<>>
        /\ calls[v] >= 1 /\ state[v] # "Attempting" =>
               Len(sleeps[v]) = calls[v] - 1
        /\ max_retries >= 1 /\ state[v] = "Exhausted" =>
               /\ calls[v] = max_retries
               /\ Len(sleeps[v]) = max_retries - 1

\* with max_retries at its largest, one variant has raised after its last
\* failed attempt while the other is still sleeping before its last attempt
C18_Witness ==
    /\ max_retries = MaxRetries
    /\ state["_agenerate"] = "Exhausted"
    /\ Len(sleeps["_agenerate"]) = MaxRetries - 1
    /\ state["_generate"] = "Retrying"
    /\ Len(sleeps["_generate"]) = MaxRetries - 2

(***************************************************************************)
(* crewai_retry_patch                                                      *)
(***************************************************************************)
\* the two imports and CrewAIAgent._get_llm: all there, a module missing, or
\* the attribute missing
PatchEnvironments == {"imported", "ImportError", "AttributeError"}

InitPatch ==
    /\ RetryIdle
    /\ ToolsIdle
    /\ FlowIdle
    /\ RagIdle
    /\ CachingIdle
    /\ ParserIdle
    /\ _PATCHED = FALSE
    /\ has_get_model \in BOOLEAN
    /\ agent_get_llm = Original
    /\ adapter_get_model = Original
    /\ patch_calls = 0
    /\ patch_args = [max_retries |-> 0, verbose |-> FALSE]
    /\ patch_log = <<>>
    /\ patch_raised = NoException
    /\ obtained = NoLLM

\* "if _PATCHED: ... return"
Patch_Skip_Never(patched) == FALSE
Patch_Skip(patched) == patched

\* isinstance(llm, BaseLLM | BaseChatModel); RetryLLMWrapper is a BaseLLM
IsLangchain(o) == o.layers >= 1 \/ o.kind \in {"BaseLLM", "BaseChatModel"}

\* RetryLLMWrapper(llm=llm, max_retries=max_retries, verbose=verbose)
get_llm_with_retries(o, m, v) == LLMObject(o.kind, o.layers + 1, m)

\* patched_get_llm / patched_get_model around what the original returns
CallMethod(f, o) ==
    IF f.patched /\ IsLangchain(o)
    THEN get_llm_with_retries(o, f.max_retries, f.verbose)
    ELSE o

\* what patch_crewai_llm_initialization logs
PatchLog(env) ==
    IF Patch_Skip(_PATCHED) THEN <<"INFO already patched">>
    ELSE IF env = "imported" THEN <<"INFO Patching", "INFO Successfully patched">>
    ELSE <<"ERROR Failed to patch CrewAI">>

\* letting the failure out
Patch_Except_Reraise(env) ==
    IF env = "imported" THEN NoException ELSE [type |-> env, msg |-> "patching"]

\* "except ImportError" and "except Exception": logger.error, nothing raised
Patch_Except(env) == NoException

\* what patch_crewai_llm_initialization does to the module and to CrewAI
Patch(m, v, env) ==
    /\ patch_calls < MaxPatchCalls
    /\ patch_calls' = patch_calls + 1
    /\ patch_args' = [max_retries |-> m, verbose |-> v]
    /\ patch_raised' = IF Patch_Skip(_PATCHED) THEN NoException ELSE Patch_Except(env)
    /\ IF Patch_Skip(_PATCHED) \/ env # "imported"
       THEN UNCHANGED <<_PATCHED, agent_get_llm, adapter_get_model>>
       ELSE /\ adapter_get_model' =
                   IF has_get_model THEN Patched(m, v) ELSE adapter_get_model
            /\ agent_get_llm' = Patched(m, v)
            /\ _PATCHED' = TRUE
    /\ UNCHANGED <<nonPatchVars, has_get_model, obtained>>

patch_crewai_llm_initialization(m, v, env) ==
    /\ Patch(m, v, env)
    /\ patch_log' = PatchLog(env)

initialize_retry_mechanism(m, env) ==
    /\ Patch(m, TRUE, env)
    /\ patch_log' = <<"INFO Initializing LLM retry mechanism">> \o PatchLog(env)
                       \o <<"INFO LLM retry mechanism initialized successfully">>

\* CrewAI asks an agent for its LLM
Agent_get_llm(o) ==
    /\ obtained' = [llm |-> CallMethod(agent_get_llm, o), by |-> agent_get_llm]
    /\ UNCHANGED <<nonPatchVars, _PATCHED, has_get_model, agent_get_llm,
                   adapter_get_model, patch_calls, patch_args, patch_log,
                   patch_raised>>

\* CrewAI asks the OpenAI adapter for its model
OpenAIAdapter_get_model(o) ==
    /\ has_get_model
    /\ obtained' = [llm |-> CallMethod(adapter_get_model, o), by |-> adapter_get_model]
    /\ UNCHANGED <<nonPatchVars, _PATCHED, has_get_model, agent_get_llm,
                   adapter_get_model, patch_calls, patch_args, patch_log,
                   patch_raised>>

NextPatch ==
    \/ \E m \in PatchRetries, v \in BOOLEAN, env \in PatchEnvironments :
           patch_crewai_llm_initialization(m, v, env)
    \/ \E m \in PatchRetries, env \in PatchEnvironments :
           initialize_retry_mechanism(m, env)
    \/ \E o \in OriginalLLMs : Agent_get_llm(o)
    \/ \E o \in OriginalLLMs : OpenAIAdapter_get_model(o)

SpecPatch == InitPatch /\ [][NextPatch]_vars

(***************************************************************************)
(* C19, C20: what the patch gives                                          *)
(***************************************************************************)
\* C19: every LLM obtained through a patched Agent._get_llm or a patched
\* OpenAIAdapter.get_model is wrapped in a RetryLLMWrapper whose max_retries
\* is the one given to the call that patched.
C19_AllObtainedWrapped ==
    obtained.by.patched =>
        /\ obtained.llm.layers >= 1
        /\ obtained.llm.max_retries = obtained.by.max_retries

\* C20: once _PATCHED is set it stays set, and no step, whatever max_retries
\* a later call of the patch is given, changes Agent._get_llm or
\* OpenAIAdapter.get_model: they stay the functions of the first successful
\* call, with its max_retries.
C20_PatchIdempotent ==
    [][_PATCHED =>
          /\ _PATCHED'
          /\ agent_get_llm.patched
          /\ agent_get_llm' = agent_get_llm
          /\ adapter_get_model' = adapter_get_model
      ]_vars

\* the patch was called again with another max_retries after it had
\* succeeded: the call only logged, the first call's max_retries is installed
C20_Witness ==
    /\ _PATCHED
    /\ patch_calls >= 2
    /\ patch_log = <<"INFO already patched">>
    /\ agent_get_llm.patched
    /\ patch_args.max_retries # agent_get_llm.max_retries
    /\ has_get_model /\ adapter_get_model = agent_get_llm

(***************************************************************************)
(* C21, C22: the layers the patch adds, the failures it meets              *)
(***************************************************************************)
\* C21: an LLM obtained from Agent._get_llm or OpenAIAdapter.get_model never
\* has more than one RetryLLMWrapper layer around it: an object that is a
\* RetryLLMWrapper already is handed on as it is.
C21_SingleRetryLayer ==
    obtained.llm.layers <= 1

PatchFailed(l) == \E i \in 1 .. Len(l) : l[i] = "ERROR Failed to patch CrewAI"
PatchSkipped(l) == \E i \in 1 .. Len(l) : l[i] = "INFO already patched"

\* C22: no call of patch_crewai_llm_initialization or of
\* initialize_retry_mechanism raises; a call made while _PATCHED is False is
\* never skipped: it patches, or it fails, and then it logs the error, leaves
\* _PATCHED False and both methods as they were, so that the next call tries
\* again.
C22_PatchFailureContained ==
    [][patch_calls' # patch_calls =>
          /\ patch_raised' = NoException
          /\ ~_PATCHED =>
                /\ ~PatchSkipped(patch_log')
                /\ \/ _PATCHED' /\ agent_get_llm'.patched
                   \/ /\ PatchFailed(patch_log')
                      /\ ~_PATCHED'
                      /\ agent_get_llm' = agent_get_llm
                      /\ adapter_get_model' = adapter_get_model
      ]_vars

\* the patch has failed twice, the second time through
\* initialize_retry_mechanism: the second call tried again, nothing is patched
C22_Witness ==
    /\ patch_calls = 2
    /\ ~_PATCHED
    /\ patch_raised = NoException
    /\ PatchFailed(patch_log)
    /\ Len(patch_log) = 3
    /\ agent_get_llm = Original

(***************************************************************************)
(* C23: cancellation of _agenerate                                         *)
(***************************************************************************)
\* C23: a CancelledError reaches the caller of _agenerate only straight from
\* the cancelled await, never as the last error of exhausted retries; the step
\* in which it does counts no attempt and sleeps nothing, and afterwards
\* _agenerate makes no underlying call, sleeps nothing and logs nothing.
C23_CancellationPropagates ==
    [][LET v == "_agenerate" IN
       /\ raised'[v] = CancelledError => state'[v] = "Cancelled"
       /\ state'[v] = "Cancelled" =>
             /\ raised'[v] = CancelledError
             /\ result'[v] = NoneResult
             /\ attempt' = attempt
             /\ sleeps'[v] = sleeps[v]
             /\ state[v] = "Cancelled" =>
                   calls'[v] = calls[v] /\ log'[v] = log[v]
      ]_vars

\* cancelled in the second backoff sleep: two attempts have failed and been
\* counted, one delay has been slept
C23_Witness ==
    /\ state["_agenerate"] = "Cancelled"
    /\ raised["_agenerate"] = CancelledError
    /\ attempt = 2
    /\ calls["_agenerate"] = 2
    /\ Len(sleeps["_agenerate"]) = 1

(***************************************************************************)
(* C24..C26: the output files across kickoff runs                          *)
(***************************************************************************)
\* every method's crew returned in the run before this one and its file
\* holds what the crew returned
AllPersisted == \A s \in Stages : persisted[s] \in Raws

\* no method of this run has met a file it could not load
NoLoadFailed == \A s \in Stages : found[s] # "unreadable"

ResaveFailed(s) ==
    /\ <<"warning", s, "save failed">> \in flow_log
    /\ fs[JsonFile(s)] # Absent

C26_LoadedFileKept ==
    [][\A s \in Stages :
          (found[s] = "readable" \/ found'[s] = "readable") =>
              /\ fs'[JsonFile(s)] = fs[JsonFile(s)]
              /\ fs'[JsonFile(s)] # Absent
      ]_vars

\* second run: the stock crew ran again after a failed load and returned
\* another text than the one the ETF crew's file from the first run was made
\* with; the ETF method loaded that file and left it
C26_Witness ==
    /\ runs = 2
    /\ found["check_stock"] = "unreadable"
    /\ crew_raw["check_stock"] = "raw2"
    /\ fs[JsonFile("check_stock")] = "raw2"
    /\ found["check_etf"] = "readable"
    /\ method["check_etf"] = "done"
    /\ fs[JsonFile("check_etf")] = "raw1"
    /\ flow_state["etf_result"] = "raw1"
    /\ flow_state["stock_result"] = "raw2"

(***************************************************************************)
(* JSONParserTool._run                                                     *)
(***************************************************************************)
\* "return value" / an exception leaving _run
Return(kind, keys) == [returned |-> ReturnValue(kind, keys), raised |-> NoException]
Raise(type, msg) == [returned |-> NoReturn, raised |-> [type |-> type, msg |-> msg]]
ReturnError == Return("dict", {"error"})

\* "if json_content:" / "elif json_file_path:": None and "" are falsy
Truthy(arg) == ~arg.is_none /\ arg.text # ""

\* json.loads(text) / json.load(f): a document, or JSONDecodeError
Parses(text) == text.text = "json"

\* key in data and isinstance(data[key], list): "in" raises TypeError on a
\* number and on None, data[key] raises TypeError on a list and on a str
ListGuard(data, key) ==
    IF data.top \in {"number", "null"} THEN "TypeError"
    ELSE IF key \notin data.has THEN "False"
    ELSE IF data.top # "dict" THEN "TypeError"
    ELSE IF data[key] = "list" THEN "True" ELSE "False"

\* len(data.get(key, [])): TypeError when the value has no len()
LenRaises(data, key) == data[key] \in {"number", "null"}

\* extraction_type == "tickers": tickers.update(...) and tickers.add(...)
\* raise TypeError on an unhashable ticker
Extract_tickers(data) ==
    LET ta == ListGuard(data, "tickers_analyzed")
        recs == ListGuard(data, "recommendations")
    IN  IF ta = "TypeError" THEN Raise("TypeError", "tickers_analyzed")
        ELSE IF ta = "True" /\ ~data.hashable THEN Raise("TypeError", "unhashable")
        ELSE IF recs = "TypeError" THEN Raise("TypeError", "recommendations")
        ELSE IF recs = "True" /\ ~data.hashable THEN Raise("TypeError", "unhashable")
        ELSE Return("dict", {"tickers"})

\* extraction_type == "recommendations"
Extract_recommendations(data) ==
    IF ListGuard(data, "recommendations") = "TypeError"
    THEN Raise("TypeError", "recommendations")
    ELSE Return("dict", {"recommendations"})

\* extraction_type == "allocation"
Extract_allocation(data) ==
    IF ListGuard(data, "recommendations") = "TypeError"
    THEN Raise("TypeError", "recommendations")
    ELSE Return("dict", {"allocations"})

\* extraction_type == "summary": data.get exists on a dict only
Extract_summary(data) ==
    IF data.top # "dict" THEN Raise("AttributeError", "get")
    ELSE IF LenRaises(data, "tickers_analyzed") THEN Raise("TypeError", "len")
    ELSE IF LenRaises(data, "recommendations") THEN Raise("TypeError", "len")
    ELSE Return("dict", {"crew_type", "analysis_date", "total_tickers_analyzed",
                         "total_recommendations", "total_allocation", "currency"})

\* lines 92-159: "all" returns data itself, an unknown type the empty result
Extract(data, extraction_type) ==
    CASE extraction_type = "all" ->
             Return(data.top, IF data.top = "dict" THEN data.has ELSE {})
      [] extraction_type = "tickers" -> Extract_tickers(data)
      [] extraction_type = "recommendations" -> Extract_recommendations(data)
      [] extraction_type = "allocation" -> Extract_allocation(data)
      [] extraction_type = "summary" -> Extract_summary(data)
      [] OTHER -> Return("dict", {})

\* lines 79-87: os.path.exists, open, json.load; only JSONDecodeError and
\* UnicodeDecodeError are caught
LoadFile(file, extraction_type) ==
    CASE file.kind = "missing" -> ReturnError
      [] file.kind = "directory" -> Raise("IsADirectoryError", "open")
      [] file.kind = "unreadable" -> Raise("PermissionError", "open")
      [] file.kind = "undecodable" -> ReturnError
      [] file.kind = "file" ->
             IF Parses(file.text) THEN Extract(file.text.doc, extraction_type)
             ELSE ReturnError

\* _run(json_content, json_file_path, extraction_type) with file at the path
Run(json_content, json_file_path, file, extraction_type) ==
    IF Truthy(json_content)
    THEN IF Parses(json_content)
         THEN Extract(json_content.doc, extraction_type)
         ELSE ReturnError
    ELSE IF json_file_path \notin {"None", ""}
    THEN LoadFile(file, extraction_type)
    ELSE ReturnError

\* an agent calls the tool
JSONParserTool_run(json_content, json_file_path, extraction_type) ==
    /\ parser_args.extraction_type = "not called"
    /\ parser_args' = [json_content |-> json_content,
                       json_file_path |-> json_file_path,
                       extraction_type |-> extraction_type]
    /\ parser_returned' =
           Run(json_content, json_file_path, parser_file, extraction_type).returned
    /\ parser_raised' =
           Run(json_content, json_file_path, parser_file, extraction_type).raised
    /\ UNCHANGED <<nonParserVars, parser_file>>

InitParser ==
    /\ RetryIdle
    /\ ToolsIdle
    /\ FlowIdle
    /\ RagIdle
    /\ CachingIdle
    /\ PatchIdle
    /\ parser_file \in ParserFiles
    /\ ParserFresh

NextParser ==
    \E json_content \in JsonContents, json_file_path \in JsonFilePaths,
       extraction_type \in ExtractionTypes :
        JSONParserTool_run(json_content, json_file_path, extraction_type)

SpecParser == InitParser /\ [][NextParser]_vars

(***************************************************************************)
(* C27: JSONParserTool._run on bad input                                   *)
(***************************************************************************)
\* the call has been made
ParserCalled == parser_args.extraction_type # "not called"

\* the document _run was given: json_content when it is given, else the file
GivenText ==
    IF ~parser_args.json_content.is_none THEN parser_args.json_content
    ELSE parser_file.text

\* neither argument given, the file missing, or content that is not JSON
BadInput ==
    \/ parser_args.json_content.is_none /\ parser_args.json_file_path = "None"
    \/ /\ parser_args.json_content.is_none
       /\ parser_args.json_file_path # "None"
       /\ parser_file.kind # "file"
    \/ ~Parses(GivenText)

\* C27: _run raises nothing and returns a dict, with the key "error" when
\* neither argument is given, the file is missing or the content is not
\* valid JSON; when json_content is given the file has no part in the result.
C27_NeverRaisesReturnsDict ==
    ParserCalled =>
        /\ parser_raised = NoException
        /\ parser_returned.kind = "dict"
        /\ BadInput => "error" \in parser_returned.keys
        /\ ~parser_args.json_content.is_none =>
              /\ parser_returned =
                     Run(parser_args.json_content, "None", NoFile,
                         parser_args.extraction_type).returned
              /\ parser_raised =
                     Run(parser_args.json_content, "None", NoFile,
                         parser_args.extraction_type).raised
====
